---- MODULE Spec2Model ----
(***************************************************************************)
(* Playback orchestration of sgrbot's audio-player module for one guild.   *)
(*                                                                         *)
(* The state is what the commands (commands.rs), the voice helpers         *)
(* (logic.rs) and the audio-server hooks (events.rs) read and write:       *)
(*   - the songbird manager's Call for the guild (voice transport),        *)
(*   - the lavalink client's player context for the guild with its         *)
(*     PlayerContextData (text channel, now-playing slot), queue and       *)
(*     cached player track,                                                *)
(*   - the audio server's player (the track it is playing) and the         *)
(*     track-start / track-end events it has emitted and whose hook has    *)
(*     not run yet, and its pause flag,                                    *)
(*   - the status messages that exist in the chat platform.                *)
(* Commands run as independent tasks; play, leave and the voice-state      *)
(* handler are split at the await points where another task of the same    *)
(* guild can run.  The hooks are modelled twice: as one step each, in any   *)
(* order of their events, and step by step in tasks of their own, split at  *)
(* lock().await and at the delete and send requests.                        *)
(***************************************************************************)
EXTENDS Integers, Sequences, FiniteSets, TLC

\* ---------------------------------------------------------------- bounds
MaxTracks == 2          \* track instances resolved by play in one run
MaxQueued == 11         \* tracks of the longest playlist a play appends
MaxPending == 2         \* emitted events whose hook has not run yet

Procs == {1, 2}         \* concurrent invocations of the play command
Hooks == {1, 2}         \* hook tasks the client can have in flight
\* context ids name their creator: a play invocation or the join command
MaxCtx == Cardinality(Procs) + 1
JoinCmd == MaxCtx
Idents == {"A", "B"}    \* TrackInfo.identifier values
VoiceChannels == {1, 2}
TextChannels == {1, 2}
NoChannel == 0

VARIABLES
    call,       \* songbird: the guild's Call handle, or NoCall
    cur,        \* lavalink client: id of the guild's player context, 0 if none
    ctx,        \* player contexts by id (data, queue, cached player track, and
                \* the track of the last track-start event received for it)
    srvTrack,   \* audio server: the track its player is playing
    events,     \* emitted track-start/track-end events whose hook has not run
    live,       \* status messages posted and not deleted; a track instance
                \* starts once, so its message is named by the track's number
    nextTrack,  \* number of the next resolved track instance
    pc,         \* play: position of each invocation
    pctx,       \* play: the player context handle the invocation holds
    lpc,        \* leave: position of the invocation
    paused,     \* audio server: the pause flag of its player
    hpc,        \* voice-state handler (auto-leave): position of the invocation,
                \* with what a later update found in the channel while it sleeps
    hk,         \* hooks in flight: position, event, context whose data it holds
    rm,         \* queue remove: position, zero-based index, entry it reports
    guilds,     \* the stores keyed by guild id, for two guilds: the manager's
                \* Call, the client's player context with its data and queue
    store,      \* StateStore: its registry, with the inserts made so far
    last        \* the operation that ran last, with its response

vars == <<call, cur, ctx, srvTrack, events, live, nextTrack, pc, pctx, lpc, paused, hpc,
          hk, rm, guilds, store, last>>

\* ------------------------------------------------------------ data model
NoCall == [channel |-> -1]
\* TrackData.user_data None: a JSON value is the set of its key-value pairs
NoUserData == {}
NoTrack == [identifier |-> "none", n |-> 0, user_data |-> NoUserData]
\* Option<NowPlayingEmbed>: None
NoSlot == [track_identifier |-> "none", message |-> 0]

NowPlayingEmbed(identifier, message) ==
    [track_identifier |-> identifier, message |-> message]

\* PlayerContextData as join_voice_channel builds it, inside a new context
PlayerContextData(text_channel_id, track) ==
    [channel_id |-> text_channel_id, now_playing_embed |-> NoSlot,
     queue |-> <<>>, track |-> track, started |-> NoTrack]

\* a context id nobody refers to
Dropped == PlayerContextData(NoChannel, NoTrack)

TrackStart(t) == [kind |-> "start", track |-> t, reason |-> "none"]
TrackEnd(t, reason) == [kind |-> "end", track |-> t, reason |-> reason]

\* no hook runs in task h
IdleHook == [pc |-> "idle", e |-> TrackEnd(NoTrack, "none"), c |-> 0, m |-> 0]

\* StateStore::default(): an empty registry; inserts is the sequence of the
\* insert calls made, kept to say what the most recent one was
NewStateStore == [registry |-> {}, inserts |-> <<>>]

\* guild ids
Guilds == {1, 2}

\* a guild without Call and without player context
NoGuildState ==
    [call |-> [channel |-> -1], context |-> FALSE, channel_id |-> 0,
     now_playing_embed |-> "none", queue |-> <<>>, track |-> "none"]

\* no queue remove is between its awaits
IdleRemove == [pc |-> "idle", index |-> 0, track |-> NoTrack]

\* a hook in flight holds the data of context c
HookHolds(c) == \E h \in Hooks : hk[h].pc # "idle" /\ hk[h].c = c

\* a context lives as long as the client's map or a running command holds it
HeldBy(c, cur_, pc_, pctx_) ==
    \/ c = cur_
    \/ \E p \in Procs : pc_[p] # "idle" /\ pctx_[p] = c

\* a context outside the client's map is reached only by the play invocation
\* that holds it, which uses its queue and its player, never its data, and by
\* the hooks in flight that hold its data
Collect(ctx_, cur_, pc_, pctx_) ==
    [c \in 1..MaxCtx |->
        IF c = cur_ \/ HookHolds(c) THEN ctx_[c]
        ELSE IF HeldBy(c, cur_, pc_, pctx_)
        THEN [ctx_[c] EXCEPT !.channel_id = NoChannel, !.now_playing_embed = NoSlot,
                             !.started = NoTrack]
        ELSE Dropped]

\* ---------------------------------------------------------- audio server
\* the server starts track t: a playing track ends with reason "replaced"
ServerPlayEvents(t) ==
    events \cup (IF srvTrack # NoTrack THEN {TrackEnd(srvTrack, "replaced")} ELSE {})
           \cup {TrackStart(t)}

\* the server stops its player
ServerStopEvents ==
    events \cup (IF srvTrack # NoTrack THEN {TrackEnd(srvTrack, "stopped")} ELSE {})

\* PlayerContext::skip on context c: the next queued track replaces the
\* current one, an empty queue stops the player
SkipCtx(c) ==
    IF ctx[c].queue # <<>>
    THEN [ctx EXCEPT ![c].track = Head(ctx[c].queue), ![c].queue = Tail(ctx[c].queue)]
    ELSE [ctx EXCEPT ![c].track = NoTrack]

SkipSrv(c) == IF ctx[c].queue # <<>> THEN Head(ctx[c].queue) ELSE NoTrack

SkipEvents(c) ==
    IF ctx[c].queue # <<>> THEN ServerPlayEvents(Head(ctx[c].queue)) ELSE ServerStopEvents

\* ----------------------------------------------------------------- Init
Init ==
    /\ call = NoCall
    /\ cur = 0
    /\ ctx = [c \in 1..MaxCtx |-> Dropped]
    /\ srvTrack = NoTrack
    /\ events = {}
    /\ live = {}
    /\ nextTrack = 1
    /\ pc = [p \in Procs |-> "idle"]
    /\ pctx = [p \in Procs |-> 0]
    /\ lpc = "idle"
    /\ paused = FALSE
    /\ hpc = "idle"
    /\ hk = [h \in Hooks |-> IdleHook]
    /\ rm = IdleRemove
    /\ guilds = [g \in Guilds |-> NoGuildState]
    /\ store = NewStateStore
    /\ last = <<"init", "none">>

\* --------------------------------------------------------------- logic.rs
\* a resolution that looks at the author's channel first
resolve_author_first(voice_channel, author_channel) ==
    IF author_channel # NoChannel THEN author_channel ELSE voice_channel

\* resolve_target_voice_channel_id: the requested channel if given, else the
\* author's voice channel; NoChannel stands for MissingTargetVoiceChannel
resolve_target_voice_channel_id(voice_channel, author_channel) ==
    IF voice_channel # NoChannel THEN voice_channel
    ELSE IF author_channel # NoChannel THEN author_channel
    ELSE NoChannel

\* which external call of an operation fails
Fails == {"none", "songbird", "lavalink"}

\* a join_voice_channel that goes on to the audio server after a failed
\* join_gateway
JoinResult_IgnoresConnect(fail) ==
    IF fail = "lavalink" THEN "LavalinkError" ELSE "Ok"

\* join_voice_channel, its result: join_gateway, then
\* create_player_context_with_data, each returning its error at the `?`
JoinResult(fail) ==
    IF fail = "songbird" THEN "SongbirdError"
    ELSE IF fail = "lavalink" THEN "LavalinkError"
    ELSE "Ok"

\* join_voice_channel, the Call afterwards: a failed join_gateway returns at
\* the `?` and the Call the manager inserted for the guild stays
JoinCall(voice_channel_id, fail) ==
    IF fail # "songbird" THEN [channel |-> voice_channel_id]
    ELSE IF call = NoCall THEN [channel |-> NoChannel] ELSE call

\* a join_voice_channel whose context inherits the queue of the guild's context
JoinCtx_KeepsQueue(c, text_channel_id) ==
    [ctx EXCEPT ![c] = [PlayerContextData(text_channel_id, srvTrack) EXCEPT
                           !.queue = IF cur # 0 THEN ctx[cur].queue ELSE <<>>]]

\* join_voice_channel, the contexts afterwards: create_player_context_with_data
\* registers a NEW context for the guild with the data built at the call
\* (empty slot), an empty queue and the player the server answers with
JoinCtx(c, text_channel_id) ==
    [ctx EXCEPT ![c] = PlayerContextData(text_channel_id, srvTrack)]

\* a leave_voice_channel without the manager.get check
LeaveResult_NoCheck(fail) ==
    IF fail = "lavalink" THEN "LavalinkError"
    ELSE IF fail = "songbird" THEN "SongbirdError"
    ELSE "Disconnected"

\* leave_voice_channel, its result
LeaveResult(fail) ==
    IF fail = "lavalink" THEN "LavalinkError"
    ELSE IF call = NoCall THEN "NotConnected"
    ELSE IF fail = "songbird" THEN "SongbirdError"
    ELSE "Disconnected"

\* leave_voice_channel: delete_player, then the manager.get check, then
\* manager.remove
leave_voice_channel(fail) ==
    /\ cur' = IF fail # "lavalink" THEN 0 ELSE cur
    /\ srvTrack' = IF fail # "lavalink" THEN NoTrack ELSE srvTrack
    /\ ctx' = Collect(ctx, cur', pc, pctx)
    /\ paused' = IF fail # "lavalink" THEN FALSE ELSE paused
    /\ call' = IF LeaveResult(fail) = "Disconnected" THEN NoCall ELSE call
    /\ last' = <<"leave", LeaveResult(fail)>>

\* ------------------------------------------------------------ commands.rs
\* the join command, its response
JoinResponse(voice_channel, author_channel, fail) ==
    IF resolve_target_voice_channel_id(voice_channel, author_channel) = NoChannel
    THEN "MissingTargetVoiceChannel"
    ELSE IF JoinResult(fail) = "Ok" THEN "Connected"
    ELSE JoinResult(fail)

\* the join command
Join(voice_channel, author_channel, text_channel_id, fail) ==
    LET target == resolve_target_voice_channel_id(voice_channel, author_channel)
        res == JoinResult(fail)
        c == JoinCmd
    IN
    /\ IF target = NoChannel
       THEN UNCHANGED <<call, cur, ctx>>
       ELSE /\ call' = JoinCall(target, fail)
            /\ cur' = IF res = "Ok" THEN c ELSE cur
            /\ ctx' = IF res = "Ok"
                      THEN Collect(JoinCtx(c, text_channel_id), c, pc, pctx)
                      ELSE ctx
    /\ last' = <<"join", JoinResponse(voice_channel, author_channel, fail)>>
    /\ UNCHANGED <<srvTrack, events, live, nextTrack, pc, pctx, lpc, paused, hpc, hk, rm, guilds, store>>

\* a skip that leaves the queue of context c as it is
ClearAndSkip_KeepsQueue(c) == [ctx EXCEPT ![c].track = NoTrack]

\* clear the queue of context c and skip: the player stops
ClearAndSkip(c) == [ctx EXCEPT ![c].queue = <<>>, ![c].track = NoTrack]

\* the leave command up to its sleep: with a context and a playing track it
\* clears the queue and skips
LeaveStart ==
    /\ lpc = "idle"
    /\ cur # 0
    /\ IF ctx[cur].track # NoTrack
       THEN /\ ctx' = ClearAndSkip(cur)
            /\ events' = ServerStopEvents
            /\ Cardinality(events') <= MaxPending
            /\ srvTrack' = NoTrack
       ELSE UNCHANGED <<ctx, events, srvTrack>>
    /\ lpc' = "sleep"
    /\ last' = <<"leave", "sleep">>
    /\ UNCHANGED <<call, cur, live, nextTrack, pc, pctx, paused, hpc, hk, rm, guilds, store>>

\* the leave command after its sleep
LeaveFinish(fail) ==
    /\ lpc = "sleep"
    /\ lpc' = "idle"
    /\ leave_voice_channel(fail)
    /\ UNCHANGED <<events, live, nextTrack, pc, pctx, hpc, hk, rm, guilds, store>>

\* the leave command when the guild has no player context: no sleep
LeaveNoContext(fail) ==
    /\ lpc = "idle"
    /\ cur = 0
    /\ leave_voice_channel(fail)
    /\ UNCHANGED <<events, live, nextTrack, pc, pctx, lpc, hpc, hk, rm, guilds, store>>

\* the play command up to load_tracks, its response ("joined": it goes on)
PlayJoinResponse(author_channel, fail) ==
    IF resolve_target_voice_channel_id(NoChannel, author_channel) = NoChannel
    THEN "MissingTargetVoiceChannel"
    ELSE IF JoinResult(fail) = "Ok" THEN "joined"
    ELSE JoinResult(fail)

\* the play command up to load_tracks: it resolves the author's channel,
\* calls join_voice_channel, takes the context and sets its text channel
PlayJoin(p, author_channel, text_channel_id, fail) ==
    LET target == resolve_target_voice_channel_id(NoChannel, author_channel)
        res == JoinResult(fail)
        c == p
    IN
    /\ pc[p] = "idle"
    /\ \A q \in Procs : q < p => pc[q] # "idle"
    /\ IF target = NoChannel
       THEN UNCHANGED <<call, cur, ctx, pc, pctx>>
       ELSE IF res # "Ok"
       THEN /\ call' = JoinCall(target, fail)
            /\ UNCHANGED <<cur, ctx, pc, pctx>>
       ELSE /\ call' = JoinCall(target, fail)
            /\ cur' = c
            /\ pc' = [pc EXCEPT ![p] = "joined"]
            /\ pctx' = [pctx EXCEPT ![p] = c]
            /\ ctx' = Collect(JoinCtx(c, text_channel_id), c, pc', pctx')
    /\ last' = <<"play", PlayJoinResponse(author_channel, fail)>>
    /\ UNCHANGED <<srvTrack, events, live, nextTrack, lpc, paused, hpc, hk, rm, guilds, store>>

\* what load_tracks can answer
Loads ==
    [kind : {"track"}, ids : {<<i>> : i \in Idents}]
    \cup [kind : {"search", "playlist"},
          ids : {<<>>} \cup {<<i>> : i \in Idents} \cup {<<i, j>> : i, j \in Idents}]
    \cup [kind : {"none", "error"}, ids : {<<>>}]

\* identifiers of tracks whose TrackInfo has no uri
UriLess == {"N"}

\* info.uri of a track is Some
HasUri(track) == track.identifier \notin UriLess

\* load_tracks answers with a track whose TrackInfo has no uri
LoadsNoUri == [kind : {"track", "playlist"}, ids : {<<i>> : i \in UriLess}]

\* the tracks play takes from the answer: the track, the first search
\* result, every track of the playlist
Resolved(load) ==
    IF load.kind = "search" THEN <<load.ids[1]>> ELSE load.ids

Stamp(ids, first) ==
    [k \in 1..Len(ids) |->
        [identifier |-> ids[k], n |-> first + k - 1, user_data |-> NoUserData]]

\* TrackUserData of a play call: name and avatar of its author (the author
\* of invocation p is user p) and the time of the request
TrackUserData(p) ==
    [requester_name |-> p, requester_avatar_url |-> p, request_timestamp |-> 0]

\* serde_json::to_value of a TrackUserData: an object with its three fields
to_value(data) ==
    {<<"requester_name", data.requester_name>>,
     <<"requester_avatar_url", data.requester_avatar_url>>,
     <<"request_timestamp", data.request_timestamp>>}

\* serde_json::from_str of an encoded TrackUserData: every field is
\* required; json_get is the value of a key of the object, -1 without the key
from_str(value) ==
    LET json_get(object, key) ==
            IF \E kv \in object : kv[1] = key
            THEN (CHOOSE kv \in object : kv[1] = key)[2]
            ELSE -1
    IN
    IF \A key \in {"requester_name", "requester_avatar_url", "request_timestamp"} :
          json_get(value, key) # -1
    THEN [requester_name |-> json_get(value, "requester_name"),
          requester_avatar_url |-> json_get(value, "requester_avatar_url"),
          request_timestamp |-> json_get(value, "request_timestamp")]
    ELSE [requester_name |-> -1, requester_avatar_url |-> -1, request_timestamp |-> -1]

\* a stamping loop that reaches the first track only
WithUserData_FirstOnly(tracks, user_data) ==
    [k \in DOMAIN tracks |->
        IF k = 1 THEN [tracks[k] EXCEPT !.user_data = user_data] ELSE tracks[k]]

\* play, `for i in &mut tracks`: every resolved track gets the user data
WithUserData(tracks, user_data) ==
    [k \in DOMAIN tracks |-> [tracks[k] EXCEPT !.user_data = user_data]]

\* create_now_playing_embed, whose footer names the requester: it panics on
\* a track without user data and on user data that does not decode
create_now_playing_embed(track) ==
    IF track.user_data = NoUserData THEN "panic: user data should be set"
    ELSE IF from_str(track.user_data).requester_name = -1
    THEN "panic: encoded user data should be valid"
    ELSE "embed"

\* load answers that end play before it appends: a request error, no
\* match, and a search without results (index 0 of an empty list)
PlayEnds(load) ==
    \/ load.kind \in {"error", "none"}
    \/ load.kind = "search" /\ load.ids = <<>>

\* the play command from load_tracks to the reply, its response
PlayAppendResponse(load) ==
    IF load.kind = "error" THEN "LavalinkError"
    ELSE IF load.kind = "none" THEN "none"
    ELSE IF load.kind = "search" /\ load.ids = <<>> THEN "panic"
    ELSE IF load.kind # "playlist" /\ Resolved(load)[1] \in UriLess THEN "panic"
    ELSE "Added"

\* the play command from load_tracks to the reply: it appends the resolved
\* tracks to the queue of the context it holds; the reply for a single track
\* unwraps its uri after the append
PlayAppend(p, load) ==
    /\ pc[p] = "joined"
    /\ IF PlayEnds(load)
       THEN /\ pc' = [pc EXCEPT ![p] = "idle"]
            /\ ctx' = Collect(ctx, cur, pc', pctx)
            /\ UNCHANGED nextTrack
       ELSE LET tracks == WithUserData(Stamp(Resolved(load), nextTrack),
                                       to_value(TrackUserData(p)))
            IN
            /\ nextTrack + Len(tracks) - 1 <= MaxTracks
            /\ nextTrack' = nextTrack + Len(tracks)
            /\ IF PlayAppendResponse(load) = "panic"
               THEN /\ pc' = [pc EXCEPT ![p] = "idle"]
                    /\ ctx' = Collect([ctx EXCEPT ![pctx[p]].queue = @ \o tracks],
                                      cur, pc', pctx)
               ELSE /\ pc' = [pc EXCEPT ![p] = "appended"]
                    /\ ctx' = [ctx EXCEPT ![pctx[p]].queue = @ \o tracks]
    /\ last' = <<"play", PlayAppendResponse(load)>>
    /\ UNCHANGED <<call, cur, srvTrack, events, live, pctx, lpc, paused, hpc, hk, rm, guilds, store>>

\* a play test that looks at the queue head only
PlayStarts_QueueOnly(c) == ctx[c].queue # <<>>

\* play's test before it skips: no track in the player and a queue head
PlayStarts(c) == ctx[c].track = NoTrack /\ ctx[c].queue # <<>>

\* the play command after the reply: with no track in the player and a
\* track at the queue head it skips
PlayFinish(p) ==
    LET c == pctx[p] IN
    /\ pc[p] = "appended"
    /\ pc' = [pc EXCEPT ![p] = "idle"]
    /\ last' = <<"play", IF PlayStarts(c) THEN "skip" ELSE "done">>
    /\ IF PlayStarts(c)
       THEN /\ ctx' = Collect(SkipCtx(c), cur, pc', pctx)
            /\ srvTrack' = SkipSrv(c)
            /\ events' = SkipEvents(c)
            /\ Cardinality(events') <= MaxPending
       ELSE /\ ctx' = Collect(ctx, cur, pc', pctx)
            /\ UNCHANGED <<srvTrack, events>>
    /\ UNCHANGED <<call, cur, live, nextTrack, pctx, lpc, paused, hpc, hk, rm, guilds, store>>

\* the stop command, its response
StopResponse ==
    IF cur = 0 THEN "NotConnected"
    ELSE IF ctx[cur].track # NoTrack THEN "Stopped"
    ELSE "NothingPlaying"

\* the stop command
Stop ==
    /\ last' = <<"stop", StopResponse>>
    /\ IF StopResponse = "Stopped"
       THEN /\ ctx' = ClearAndSkip(cur)
            /\ events' = ServerStopEvents
            /\ Cardinality(events') <= MaxPending
            /\ srvTrack' = NoTrack
       ELSE UNCHANGED <<ctx, srvTrack, events>>
    /\ UNCHANGED <<call, cur, live, nextTrack, pc, pctx, lpc, paused, hpc, hk, rm, guilds, store>>

\* the skip command, the track whose title and link it reports
SkipReports == ctx[cur].track

\* the skip command, its response
SkipResponse ==
    IF cur = 0 THEN "NotConnected"
    ELSE IF ctx[cur].track = NoTrack THEN "NothingPlaying"
    ELSE IF HasUri(ctx[cur].track) THEN "Skipped"
    ELSE "panic"

\* the skip command: the reply unwraps the track's uri after skip()
Skip ==
    /\ last' = <<"skip", SkipResponse>>
    /\ IF SkipResponse \in {"Skipped", "panic"}
       THEN /\ ctx' = SkipCtx(cur)
            /\ srvTrack' = SkipSrv(cur)
            /\ events' = SkipEvents(cur)
            /\ Cardinality(events') <= MaxPending
       ELSE UNCHANGED <<ctx, srvTrack, events>>
    /\ UNCHANGED <<call, cur, live, nextTrack, pc, pctx, lpc, paused, hpc, hk, rm, guilds, store>>

\* a pause that does not look at the player's track
PauseResponse_NoTrackCheck == IF cur = 0 THEN "NotConnected" ELSE "Paused"

\* the pause command, its response
PauseResponse ==
    IF cur = 0 THEN "NotConnected"
    ELSE IF ctx[cur].track # NoTrack THEN "Paused"
    ELSE "NothingPlaying"

\* the pause command: set_pause(true) when the player has a track
Pause ==
    /\ last' = <<"pause", PauseResponse>>
    /\ paused' = IF PauseResponse = "Paused" THEN TRUE ELSE paused
    /\ UNCHANGED <<call, cur, ctx, srvTrack, events, live, nextTrack, pc, pctx, lpc, hpc, hk, rm, guilds, store>>

\* the resume command, its response
ResumeResponse ==
    IF cur = 0 THEN "NotConnected"
    ELSE IF ctx[cur].track # NoTrack THEN "Resumed"
    ELSE "NothingPlaying"

\* the resume command: set_pause(false) when the player has a track
Resume ==
    /\ last' = <<"resume", ResumeResponse>>
    /\ paused' = IF ResumeResponse = "Resumed" THEN FALSE ELSE paused
    /\ UNCHANGED <<call, cur, ctx, srvTrack, events, live, nextTrack, pc, pctx, lpc, hpc, hk, rm, guilds, store>>

\* queue list shows at most this many entries
ListMax == 9

\* queue list, the entries it shows: indices below min(count, 9)
ListShown ==
    LET queue == ctx[cur].queue
        max == IF Len(queue) < ListMax THEN Len(queue) ELSE ListMax
    IN  SubSeq(queue, 1, max)

\* queue list, its response
ListResponse ==
    IF cur = 0 THEN "NotConnected"
    ELSE IF Len(ctx[cur].queue) = 0 THEN "QueueIsEmpty"
    ELSE IF \E k \in DOMAIN ListShown : ~HasUri(ListShown[k]) THEN "panic"
    ELSE "Queue"

\* the queue list command: it reads the queue and replies
List ==
    /\ last' = <<"list", ListResponse>>
    /\ UNCHANGED <<call, cur, ctx, srvTrack, events, live, nextTrack, pc, pctx, lpc,
                   paused, hpc, hk, rm, guilds, store>>

\* queue.get_track(index): the entry at a zero-based index, None outside
get_track(queue, index) ==
    IF index + 1 \in DOMAIN queue THEN queue[index + 1] ELSE NoTrack

\* queue.remove(index): the queue without the entry at a zero-based index
QueueRemove(queue, index) ==
    SubSeq(queue, 1, index) \o SubSeq(queue, index + 2, Len(queue))

\* a range check that lets track number 0 through
RemoveInRange_FromZero(track_number) ==
    0 <= track_number /\ track_number <= Len(ctx[cur].queue)

\* queue remove, its range check on the one-based track number (a usize)
RemoveInRange(track_number) ==
    0 < track_number /\ track_number <= Len(ctx[cur].queue)

\* an index taken to be the track number itself
RemoveIndex_OneBased(track_number) == track_number

\* queue remove, the zero-based index it uses
RemoveIndex(track_number) == track_number - 1

\* queue remove, the entry whose title and link it reports
RemoveReports(track_number) == get_track(ctx[cur].queue, RemoveIndex(track_number))

\* queue remove, its response
RemoveResponse(track_number) ==
    IF cur = 0 THEN "NotConnected"
    ELSE IF ~RemoveInRange(track_number) THEN "InvalidTrackNumber"
    ELSE IF HasUri(RemoveReports(track_number)) THEN "Removed"
    ELSE "panic"

\* the queue remove command; the range check, get_track and remove see the
\* same queue, and the reply unwraps the entry's uri after the removal
Remove(track_number) ==
    /\ last' = <<"remove", RemoveResponse(track_number)>>
    /\ ctx' = IF RemoveResponse(track_number) \in {"Removed", "panic"}
              THEN [ctx EXCEPT ![cur].queue = QueueRemove(@, RemoveIndex(track_number))]
              ELSE ctx
    /\ UNCHANGED <<call, cur, srvTrack, events, live, nextTrack, pc, pctx, lpc, paused, hpc, hk, rm, guilds, store>>

\* queue remove up to its range check on queue.get_count().await
RemoveCheck(track_number) ==
    /\ rm.pc = "idle"
    /\ cur # 0
    /\ IF RemoveInRange(track_number)
       THEN /\ rm' = [pc |-> "checked", index |-> RemoveIndex(track_number), track |-> NoTrack]
            /\ last' = <<"remove", "checked">>
       ELSE /\ rm' = rm
            /\ last' = <<"remove", "InvalidTrackNumber">>
    /\ UNCHANGED <<call, cur, ctx, srvTrack, events, live, nextTrack, pc, pctx, lpc, paused,
                   hpc, hk, guilds, store>>

\* queue remove, queue.get_track(index).await?.unwrap(): the entry it will
\* report; None at the index panics
RemoveGet ==
    /\ rm.pc = "checked"
    /\ cur # 0
    /\ LET entry == get_track(ctx[cur].queue, rm.index) IN
       IF entry = NoTrack
       THEN /\ rm' = IdleRemove
            /\ last' = <<"remove", "panic">>
       ELSE /\ rm' = [rm EXCEPT !.pc = "got", !.track = entry]
            /\ last' = <<"remove", "got">>
    /\ UNCHANGED <<call, cur, ctx, srvTrack, events, live, nextTrack, pc, pctx, lpc, paused,
                   hpc, hk, guilds, store>>

\* queue remove, queue.remove(index) and the reply: the player removes the
\* entry at the index if there is one, the reply names the entry read before
RemoveSend ==
    /\ rm.pc = "got"
    /\ cur # 0
    /\ ctx' = IF rm.index < Len(ctx[cur].queue)
              THEN [ctx EXCEPT ![cur].queue = QueueRemove(@, rm.index)]
              ELSE ctx
    /\ rm' = IdleRemove
    /\ last' = <<"remove", IF HasUri(rm.track) THEN "Removed" ELSE "panic">>
    /\ UNCHANGED <<call, cur, srvTrack, events, live, nextTrack, pc, pctx, lpc, paused,
                   hpc, hk, guilds, store>>

\* a queue clear that also skips, as stop does
Clear_AndSkip ==
    /\ last' = <<"clear", IF cur = 0 THEN "NotConnected" ELSE "Cleared">>
    /\ IF cur # 0
       THEN /\ ctx' = [ctx EXCEPT ![cur].queue = <<>>, ![cur].track = NoTrack]
            /\ events' = events \cup (IF srvTrack # NoTrack
                                       THEN {[kind |-> "end", track |-> srvTrack,
                                              reason |-> "stopped"]}
                                       ELSE {})
            /\ srvTrack' = NoTrack
       ELSE UNCHANGED <<ctx, events, srvTrack>>
    /\ UNCHANGED <<call, cur, live, nextTrack, pc, pctx, lpc, paused, hpc, hk, rm, guilds, store>>

\* a queue clear that does not look for the guild's player context
ClearResponse_NoCheck == "Cleared"

\* queue clear, its response
ClearResponse == IF cur = 0 THEN "NotConnected" ELSE "Cleared"

\* the queue clear command: get_queue().clear()
Clear ==
    /\ last' = <<"clear", ClearResponse>>
    /\ ctx' = IF ClearResponse = "Cleared" THEN [ctx EXCEPT ![cur].queue = <<>>] ELSE ctx
    /\ UNCHANGED <<call, cur, srvTrack, events, live, nextTrack, pc, pctx, lpc, paused, hpc, hk, rm, guilds, store>>

\* -------------------------------------------------------------- events.rs
\* the client's own handling of a track-start event, before the hook: the
\* guild's context records the track as the player's track; started keeps
\* the track of the last track-start event the session received
ClientTrackStart(e) ==
    IF cur = 0 THEN ctx
    ELSE [ctx EXCEPT ![cur].track = e.track, ![cur].started = e.track]

\* a track_start hook that does not store the message it posted
track_start_no_store(c, e, m, sendOk) == c

\* the track_start hook on the data c of the guild's context: it takes the
\* slot, deletes the message the slot held (the request fails when the
\* message no longer exists), posts message m and stores it with the
\* track's identifier; a failed post leaves the slot empty
track_start(c, e, m, sendOk) ==
    [c EXCEPT !.now_playing_embed =
        IF sendOk THEN NowPlayingEmbed(e.track.identifier, m) ELSE NoSlot]

track_start_live(c, m, sendOk) ==
    (live \ {c.now_playing_embed.message}) \cup (IF sendOk THEN {m} ELSE {})

\* a track-start event is handled; without a context the hook's unwrap panics
OnTrackStart(e, sendOk) ==
    /\ e \in events
    /\ e.kind = "start"
    /\ last' = <<"track_start",
                 IF cur = 0 THEN "panic" ELSE IF sendOk THEN "posted" ELSE "send failed">>
    /\ events' = events \ {e}
    /\ IF cur = 0
       THEN UNCHANGED <<ctx, live>>
       ELSE /\ LET upd == ClientTrackStart(e)
                   m == e.track.n
               IN
               /\ ctx' = [upd EXCEPT ![cur] = track_start(upd[cur], e, m, sendOk)]
               /\ live' = track_start_live(ctx[cur], m, sendOk)
    /\ UNCHANGED <<call, cur, srvTrack, nextTrack, pc, pctx, lpc, paused, hpc, hk, rm, guilds, store>>

\* the client's own handling of a track-end event, before the hook: after a
\* track that finished by itself, the guild's context plays its queue head
ClientTrackEnd(e) ==
    IF cur = 0 \/ e.reason # "finished" THEN ctx
    ELSE SkipCtx(cur)

ClientTrackEndAdvances(e) ==
    cur # 0 /\ e.reason = "finished" /\ ctx[cur].queue # <<>>

\* a track_end test that leaves out the comparison of the identifiers
track_end_matches_any(c, e) ==
    c.now_playing_embed # NoSlot

\* the test of the track_end hook: a slot whose identifier is the event's
track_end_matches(c, e) ==
    /\ c.now_playing_embed # NoSlot
    /\ c.now_playing_embed.track_identifier = e.track.identifier

\* a track_end hook that leaves the slot as it is
track_end_keeps_slot(c, e) == c

\* the track_end hook on the data c of the guild's context: on a match it
\* deletes the message and empties the slot
track_end(c, e) ==
    IF track_end_matches(c, e)
    THEN [c EXCEPT !.now_playing_embed = NoSlot]
    ELSE c

track_end_live(c, e) ==
    IF track_end_matches(c, e)
    THEN live \ {c.now_playing_embed.message}
    ELSE live

\* a track-end event is handled; without a context the hook's expect panics
OnTrackEnd(e) ==
    /\ e \in events
    /\ e.kind = "end"
    /\ last' = <<"track_end",
                 IF cur = 0 THEN "panic"
                 ELSE IF track_end_matches(ctx[cur], e) THEN "cleared" ELSE "ignored">>
    /\ IF ClientTrackEndAdvances(e)
       THEN /\ srvTrack' = SkipSrv(cur)
            /\ events' = SkipEvents(cur) \ {e}
            /\ Cardinality(events') <= MaxPending
       ELSE /\ events' = events \ {e}
            /\ UNCHANGED srvTrack
    /\ IF cur = 0
       THEN UNCHANGED <<ctx, live>>
       ELSE /\ LET upd == ClientTrackEnd(e) IN
               ctx' = [upd EXCEPT ![cur] = track_end(upd[cur], e)]
            /\ live' = track_end_live(ctx[cur], e)
    /\ UNCHANGED <<call, cur, nextTrack, pc, pctx, lpc, paused, hpc, hk, rm, guilds, store>>

\* the text channel track_start posts to: channel_id of the data it holds
SendChannel(c) == c.channel_id

\* the hooks step by step, each in a task of its own: the data of the context
\* is taken when the hook begins, the slot's lock is held from lock().await
\* to the end of the hook, and the hook yields at every await
HookName(e) == IF e.kind = "start" THEN "track_start" ELSE "track_end"

\* a slot lock that excludes nobody
SlotLocked_Never(c) == FALSE

\* the now_playing_embed mutex of the data of context c is held
SlotLocked(c) == \E h \in Hooks : hk[h].c = c /\ hk[h].pc \in {"delete", "send", "post"}

\* a hook that takes the channel_id mutex before it waits for the slot
ChannelLocked_TakenFirst(c) == \E h \in Hooks : hk[h].c = c /\ hk[h].pc \in {"lock", "post"}

\* the channel_id mutex of the data of context c is held: track_start holds
\* it over its send request; set_now_playing_text_channel holds it over one
\* assignment, without an await
ChannelLocked(c) == \E h \in Hooks : hk[h].c = c /\ hk[h].pc = "post"

\* the contexts once hook h has ended: data nobody holds any more is dropped
HookRelease(ctx_, h) ==
    LET c == hk[h].c IN
    [ctx_ EXCEPT ![c] =
        IF c = cur \/ (\E g \in Hooks \ {h} : hk[g].pc # "idle" /\ hk[g].c = c) THEN @
        ELSE IF HeldBy(c, cur, pc, pctx)
        THEN [@ EXCEPT !.channel_id = NoChannel, !.now_playing_embed = NoSlot,
                       !.started = NoTrack]
        ELSE Dropped]

\* an event is received and its hook starts in task h: the client's own
\* handling, then get_player_context and data, which panic without a context
HookBegin(h, e) ==
    /\ hk[h].pc = "idle"
    /\ \A g \in Hooks : g < h => hk[g].pc # "idle"
    /\ e \in events
    /\ IF e.kind = "end" /\ ClientTrackEndAdvances(e)
       THEN /\ srvTrack' = SkipSrv(cur)
            /\ events' = SkipEvents(cur) \ {e}
            /\ Cardinality(events') <= MaxPending
       ELSE /\ events' = events \ {e}
            /\ UNCHANGED srvTrack
    /\ IF cur = 0
       THEN /\ last' = <<HookName(e), "panic">>
            /\ UNCHANGED <<ctx, hk>>
       ELSE /\ ctx' = IF e.kind = "start" THEN ClientTrackStart(e) ELSE ClientTrackEnd(e)
            /\ hk' = [hk EXCEPT ![h] = [pc |-> "lock", e |-> e, c |-> cur, m |-> 0]]
            /\ last' = <<HookName(e), "begin">>
    /\ UNCHANGED <<call, cur, live, nextTrack, pc, pctx, lpc, paused, hpc, rm, guilds, store>>

\* hook h gets the lock: track_start takes the slot, track_end tests it and
\* ends when it does not match
HookLock(h) ==
    LET c == hk[h].c
        e == hk[h].e
        slot == ctx[c].now_playing_embed
    IN
    /\ hk[h].pc = "lock"
    /\ ~SlotLocked(c)
    /\ IF e.kind = "start"
       THEN /\ ctx' = [ctx EXCEPT ![c].now_playing_embed = NoSlot]
            /\ hk' = [hk EXCEPT ![h].pc = IF slot # NoSlot THEN "delete" ELSE "send",
                                ![h].m = slot.message]
            /\ last' = <<"track_start", "locked">>
       ELSE IF track_end_matches(ctx[c], e)
       THEN /\ hk' = [hk EXCEPT ![h].pc = "delete", ![h].m = slot.message]
            /\ last' = <<"track_end", "locked">>
            /\ UNCHANGED ctx
       ELSE /\ hk' = [hk EXCEPT ![h] = IdleHook]
            /\ ctx' = HookRelease(ctx, h)
            /\ last' = <<"track_end", "ignored">>
    /\ UNCHANGED <<call, cur, srvTrack, events, live, nextTrack, pc, pctx, lpc, paused, hpc, rm, guilds, store>>

\* the delete request of hook h is answered: it fails for a message that no
\* longer exists; track_end then empties the slot and ends
HookDelete(h) ==
    LET c == hk[h].c
        e == hk[h].e
        answer == IF hk[h].m \in live THEN "deleted" ELSE "already deleted"
    IN
    /\ hk[h].pc = "delete"
    /\ live' = live \ {hk[h].m}
    /\ IF e.kind = "start"
       THEN /\ hk' = [hk EXCEPT ![h].pc = "send"]
            /\ last' = <<"track_start", answer>>
            /\ UNCHANGED ctx
       ELSE /\ hk' = [hk EXCEPT ![h] = IdleHook]
            /\ ctx' = HookRelease([ctx EXCEPT ![c] = track_end(ctx[c], e)], h)
            /\ last' = <<"track_end", IF answer = "deleted" THEN "cleared" ELSE answer>>
    /\ UNCHANGED <<call, cur, srvTrack, events, nextTrack, pc, pctx, lpc, paused, hpc, rm, guilds, store>>

\* the send request of the track_start hook h is answered: the message is
\* stored in the slot and the hook ends
HookSend(h, sendOk) ==
    LET c == hk[h].c
        e == hk[h].e
    IN
    /\ hk[h].pc = "send"
    /\ live' = live \cup (IF sendOk THEN {e.track.n} ELSE {})
    /\ hk' = [hk EXCEPT ![h] = IdleHook]
    /\ ctx' = HookRelease([ctx EXCEPT ![c] = track_start(ctx[c], e, e.track.n, sendOk)], h)
    /\ last' = <<"track_start", IF sendOk THEN "posted" ELSE "send failed">>
    /\ UNCHANGED <<call, cur, srvTrack, events, nextTrack, pc, pctx, lpc, paused, hpc, rm, guilds, store>>

\* track_start hook h, holding the slot, gets the channel_id mutex and makes
\* its send request
HookChannelLock(h) ==
    /\ hk[h].pc = "send"
    /\ ~ChannelLocked(hk[h].c)
    /\ hk' = [hk EXCEPT ![h].pc = "post"]
    /\ last' = <<"track_start", "channel locked">>
    /\ UNCHANGED <<call, cur, ctx, srvTrack, events, live, nextTrack, pc, pctx, lpc, paused,
                   hpc, rm, guilds, store>>

\* the send request of track_start hook h, made under both mutexes, is
\* answered: the message is stored, both guards are dropped, the hook ends
HookPost(h, sendOk) ==
    LET c == hk[h].c
        e == hk[h].e
    IN
    /\ hk[h].pc = "post"
    /\ live' = live \cup (IF sendOk THEN {e.track.n} ELSE {})
    /\ hk' = [hk EXCEPT ![h] = IdleHook]
    /\ ctx' = HookRelease([ctx EXCEPT ![c] = track_start(ctx[c], e, e.track.n, sendOk)], h)
    /\ last' = <<"track_start", IF sendOk THEN "posted" ELSE "send failed">>
    /\ UNCHANGED <<call, cur, srvTrack, events, nextTrack, pc, pctx, lpc, paused, hpc, rm, guilds, store>>

\* the play command up to the context it takes after join_voice_channel,
\* before set_now_playing_text_channel
PlayCreate(p, text_channel_id) ==
    /\ pc[p] = "idle"
    /\ call' = JoinCall(1, "none")
    /\ cur' = p
    /\ pc' = [pc EXCEPT ![p] = "created"]
    /\ pctx' = [pctx EXCEPT ![p] = p]
    /\ ctx' = Collect(JoinCtx(p, text_channel_id), p, pc', pctx')
    /\ last' = <<"play", "created">>
    /\ UNCHANGED <<srvTrack, events, live, nextTrack, lpc, paused, hpc, hk, rm, guilds, store>>

\* the play command, set_now_playing_text_channel: it waits for the
\* channel_id mutex of the data it holds and writes the channel of the command
PlaySetChannel(p, text_channel_id) ==
    /\ pc[p] = "created"
    /\ ~ChannelLocked(pctx[p])
    /\ ctx' = [ctx EXCEPT ![pctx[p]].channel_id = text_channel_id]
    /\ pc' = [pc EXCEPT ![p] = "joined"]
    /\ last' = <<"play", "joined">>
    /\ UNCHANGED <<call, cur, srvTrack, events, live, nextTrack, pctx, lpc, paused, hpc, hk, rm, guilds, store>>

\* users of the guild other than the bot itself, and those that are bots
Users == {"member", "other_bot"}
IsBot(u) == u = "other_bot"

\* the cache's voice states of the guild: the channel of every user, the
\* bot itself being in the channel of its call
VoiceStates == [Users -> VoiceChannels \cup {NoChannel}]

\* the handler's count: every voice state whose channel is channel_id,
\* the bot's own included
user_count_in_channel(voice_states, channel_id) ==
    1 + Cardinality({u \in Users : voice_states[u] = channel_id})

\* the voice-state handler, what it does with user_count members in the
\* bot's channel
HandlerBranch(user_count) ==
    IF call = NoCall THEN "no call"
    ELSE IF call.channel = NoChannel THEN "no channel"
    ELSE IF user_count > 1 THEN "occupied"
    ELSE IF cur # 0 /\ ctx[cur].track # NoTrack THEN "sleep"
    ELSE "leave"

\* the voice-state handler up to its sleep or, when nothing plays, to its
\* end: it returns without a call, without a channel or with more than one
\* member in the channel; with a playing track it clears the queue, skips
\* and sleeps; otherwise it leaves at once
AutoLeaveStart(user_count, fail) ==
    /\ hpc = "idle"
    /\ CASE HandlerBranch(user_count) = "sleep" ->
              /\ ctx' = ClearAndSkip(cur)
              /\ events' = ServerStopEvents
              /\ Cardinality(events') <= MaxPending
              /\ srvTrack' = NoTrack
              /\ hpc' = "sleep"
              /\ last' = <<"voice_state", "sleep">>
              /\ UNCHANGED <<call, cur, paused>>
         [] HandlerBranch(user_count) = "leave" ->
              /\ leave_voice_channel(fail)
              /\ UNCHANGED <<events, hpc>>
         [] OTHER ->
              /\ last' = <<"voice_state", HandlerBranch(user_count)>>
              /\ UNCHANGED <<call, cur, ctx, srvTrack, events, paused, hpc>>
    /\ UNCHANGED <<live, nextTrack, pc, pctx, lpc, hk, rm, guilds, store>>

\* the voice-state handler on an update that leaves the cache with
\* voice_states
VoiceStateUpdate(voice_states) ==
    AutoLeaveStart(user_count_in_channel(voice_states, call.channel), "none")

\* a further voice-state update while an invocation sleeps: another
\* invocation of the handler runs on the cache as it is then; it returns when
\* the channel has other members, and leaves at once when it has none and
\* nothing plays (a second sleeping invocation is left out)
VoiceStateUpdateAsleep(voice_states) ==
    LET branch == HandlerBranch(user_count_in_channel(voice_states, call.channel)) IN
    /\ hpc \in {"sleep", "sleep occupied"}
    /\ branch # "sleep"
    /\ hpc' = IF branch = "occupied" THEN "sleep occupied" ELSE "sleep"
    /\ IF branch = "leave"
       THEN leave_voice_channel("none")
       ELSE /\ last' = <<"voice_state", branch>>
            /\ UNCHANGED <<call, cur, ctx, srvTrack, paused>>
    /\ UNCHANGED <<events, live, nextTrack, pc, pctx, lpc, hk, rm, guilds, store>>

\* the voice-state handler after its sleep: it goes on to
\* leave_voice_channel without counting the members again
AutoLeaveFinish(fail) ==
    /\ hpc \in {"sleep", "sleep occupied"}
    /\ hpc' = "idle"
    /\ leave_voice_channel(fail)
    /\ UNCHANGED <<events, live, nextTrack, pc, pctx, lpc, hk, rm, guilds, store>>

\* the ready hook: delete_all_player_contexts
ready_event ==
    /\ cur' = 0
    /\ ctx' = Collect(ctx, 0, pc, pctx)
    /\ srvTrack' = NoTrack
    /\ paused' = FALSE
    /\ last' = <<"ready", "none">>
    /\ UNCHANGED <<call, events, live, nextTrack, pc, pctx, lpc, hpc, hk, rm, guilds, store>>

\* ------------------------------------------------------------ environment
\* the track the server plays reaches its end (a paused player does not
\* advance)
TrackFinishes ==
    /\ srvTrack # NoTrack
    /\ ~paused
    /\ events' = events \cup {TrackEnd(srvTrack, "finished")}
    /\ Cardinality(events') <= MaxPending
    /\ srvTrack' = NoTrack
    /\ last' = <<"server", "finished">>
    /\ UNCHANGED <<call, cur, ctx, live, nextTrack, pc, pctx, lpc, paused, hpc, hk, rm, guilds, store>>

\* somebody else deletes a status message in the chat platform
ExternalDelete(m) ==
    /\ m \in live
    /\ live' = live \ {m}
    /\ last' = <<"chat", "deleted">>
    /\ UNCHANGED <<call, cur, ctx, srvTrack, events, nextTrack, pc, pctx, lpc,
                 paused, hpc, hk, rm, guilds, store>>

\* ------------------------------------------------------------------ Next
\* no command of the guild is running
Idle == lpc = "idle" /\ \A p \in Procs : pc[p] = "idle"

\* the commands of the guild one at a time, with the hooks and the
\* environment running between their steps; every external call can fail
Next ==
    \/ Idle /\ \E v, a \in VoiceChannels \cup {NoChannel}, t \in TextChannels, f \in Fails :
                  Join(v, a, t, f)
    \/ Idle /\ LeaveStart
    \/ \E f \in Fails : LeaveFinish(f)
    \/ Idle /\ \E f \in Fails : LeaveNoContext(f)
    \/ Idle /\ \E a \in VoiceChannels \cup {NoChannel}, t \in TextChannels, f \in Fails :
                  PlayJoin(1, a, t, f)
    \/ \E load \in Loads : PlayAppend(1, load)
    \/ PlayFinish(1)
    \/ Idle /\ Stop
    \/ Idle /\ Skip
    \/ \E e \in events, ok \in BOOLEAN : OnTrackStart(e, ok)
    \/ \E e \in events : OnTrackEnd(e)
    \/ ready_event
    \/ TrackFinishes
    \/ \E m \in live : ExternalDelete(m)

Spec == Init /\ [][Next]_vars

\* the commands and the callbacks when no external call fails, the audio
\* server keeps its connection and nobody else touches the messages
NextNoFailure ==
    \/ Idle /\ \E v, a \in {NoChannel, 1} : Join(v, a, 1, "none")
    \/ Idle /\ LeaveStart
    \/ LeaveFinish("none")
    \/ Idle /\ LeaveNoContext("none")
    \/ Idle /\ \E a \in {NoChannel, 1} : PlayJoin(1, a, 1, "none")
    \/ \E load \in Loads : PlayAppend(1, load)
    \/ PlayFinish(1)
    \/ Idle /\ Stop
    \/ Idle /\ Skip
    \/ \E e \in events : OnTrackStart(e, TRUE)
    \/ \E e \in events : OnTrackEnd(e)
    \/ TrackFinishes

SpecNoFailure == Init /\ [][NextNoFailure]_vars

\* two play invocations of one guild running at the same time
NextRace ==
    \/ \E p \in Procs : PlayJoin(p, 1, 1, "none")
    \/ \E p \in Procs, load \in [kind : {"track"}, ids : {<<i>> : i \in Idents}] :
          PlayAppend(p, load)
    \/ \E p \in Procs : PlayFinish(p)
    \/ \E e \in events : OnTrackStart(e, TRUE)
    \/ \E e \in events : OnTrackEnd(e)
    \/ TrackFinishes

SpecRace == Init /\ [][NextRace]_vars

\* nothing plays, no event is pending and no status message is shown
Quiet ==
    /\ srvTrack = NoTrack /\ events = {} /\ live = {}
    /\ cur # 0 => ctx[cur].track = NoTrack /\ ctx[cur].queue = <<>>

\* join, then plays of a single track on the quiet guild, each skipped
\* after its status message was posted; the client runs the hook of every
\* event it receives
NextSkip ==
    \/ Idle /\ cur = 0
            /\ \E v, a \in VoiceChannels \cup {NoChannel}, t \in TextChannels :
                  Join(v, a, t, "none")
    \/ Idle /\ cur # 0 /\ Quiet
            /\ \E a \in VoiceChannels, t \in TextChannels : PlayJoin(1, a, t, "none")
    \/ \E load \in {l \in Loads : l.kind = "track"} : PlayAppend(1, load)
    \/ PlayFinish(1)
    \/ Idle /\ cur # 0 /\ ctx[cur].now_playing_embed # NoSlot /\ Skip
    \/ \E e \in events : OnTrackStart(e, TRUE)
    \/ \E e \in events : OnTrackEnd(e)

SpecSkip ==
    /\ Init /\ [][NextSkip]_vars
    /\ WF_vars(\E e \in events : OnTrackStart(e, TRUE))
    /\ WF_vars(\E e \in events : OnTrackEnd(e))

\* play commands and voice-state updates of the guild, with the hooks and the
\* end of tracks; no command starts while the handler sleeps
NextAutoLeave ==
    \/ Idle /\ hpc = "idle" /\ \E t \in TextChannels : PlayJoin(1, 1, t, "none")
    \/ \E load \in Loads : PlayAppend(1, load)
    \/ PlayFinish(1)
    \/ \E voice_states \in VoiceStates : VoiceStateUpdate(voice_states)
    \/ \E voice_states \in VoiceStates : VoiceStateUpdateAsleep(voice_states)
    \/ AutoLeaveFinish("none")
    \/ \E e \in events : OnTrackStart(e, TRUE)
    \/ \E e \in events : OnTrackEnd(e)
    \/ TrackFinishes

SpecAutoLeave == Init /\ [][NextAutoLeave]_vars

\* no hook is in flight
NoHook == \A h \in Hooks : hk[h].pc = "idle"

\* play and leave one at a time with the hooks in tasks of their own;
\* a play starts when no hook is in flight
NextHooks ==
    \/ Idle /\ NoHook /\ \E t \in TextChannels : PlayJoin(1, 1, t, "none")
    \/ \E load \in {l \in Loads : l.kind = "track"} : PlayAppend(1, load)
    \/ PlayFinish(1)
    \/ Idle /\ LeaveStart
    \/ LeaveFinish("none")
    \/ \E h \in Hooks, e \in events : HookBegin(h, e)
    \/ \E h \in Hooks : HookLock(h)
    \/ \E h \in Hooks : HookDelete(h)
    \/ \E h \in Hooks : HookSend(h, TRUE)
    \/ TrackFinishes

SpecHooks == Init /\ [][NextHooks]_vars

\* play, skip and the queue commands on tracks with and without a uri
NextUri ==
    \/ Idle /\ PlayJoin(1, 1, 1, "none")
    \/ \E load \in {l \in Loads : l.kind = "track"} \cup LoadsNoUri : PlayAppend(1, load)
    \/ PlayFinish(1)
    \/ Idle /\ Skip
    \/ Idle /\ List
    \/ Idle /\ \E track_number \in 1..MaxTracks : Remove(track_number)
    \/ \E e \in events : OnTrackStart(e, TRUE)
    \/ \E e \in events : OnTrackEnd(e)

SpecUri == Init /\ [][NextUri]_vars

\* the same with join commands, which register a context of their own while
\* hooks hold the data of the play command's context
NextHooksJoin ==
    \/ NextHooks
    \/ Idle /\ ~HookHolds(JoinCmd) /\ \E t \in TextChannels : Join(1, 1, t, "none")

SpecHooksJoin == Init /\ [][NextHooksJoin]_vars

\* a play command has appended a playlist of up to MaxQueued tracks to the
\* queue of a new session and has not called skip() yet
InitList ==
    \E count \in 0..MaxQueued :
        /\ call = [channel |-> 1]
        /\ cur = 1
        /\ ctx = [c \in 1..MaxCtx |->
                    IF c = 1
                    THEN [PlayerContextData(1, NoTrack) EXCEPT
                            !.queue = WithUserData(Stamp([k \in 1..count |-> "A"], 1),
                                                   to_value(TrackUserData(1)))]
                    ELSE Dropped]
        /\ srvTrack = NoTrack
        /\ events = {}
        /\ live = {}
        /\ nextTrack = count + 1
        /\ pc = [p \in Procs |-> IF p = 1 THEN "appended" ELSE "idle"]
        /\ pctx = [p \in Procs |-> IF p = 1 THEN 1 ELSE 0]
        /\ lpc = "idle"
        /\ paused = FALSE
        /\ hpc = "idle"
        /\ hk = [h \in Hooks |-> IdleHook]
        /\ rm = IdleRemove
        /\ guilds = [g \in Guilds |-> NoGuildState]
        /\ store = NewStateStore
        /\ last = <<"play", "Added">>

\* queue list, remove and clear on that queue, with the end of the play
\* command, the hooks and the end of tracks
NextList ==
    \/ List
    \/ \E track_number \in 0..(MaxTracks + 1) : Remove(track_number)
    \/ Clear
    \/ PlayFinish(1)
    \/ \E e \in events : OnTrackStart(e, TRUE)
    \/ \E e \in events : OnTrackEnd(e)
    \/ TrackFinishes

SpecList == InitList /\ [][NextList]_vars

\* plays with the hooks in tasks of their own, while users delete status
\* messages and the platform can refuse a post
NextShow ==
    \/ Idle /\ NoHook /\ PlayJoin(1, 1, 1, "none")
    \/ \E load \in {l \in Loads : l.kind = "track"} : PlayAppend(1, load)
    \/ PlayFinish(1)
    \/ \E h \in Hooks, e \in events : HookBegin(h, e)
    \/ \E h \in Hooks : HookLock(h)
    \/ \E h \in Hooks : HookDelete(h)
    \/ \E h \in Hooks, sendOk \in BOOLEAN : HookSend(h, sendOk)
    \/ TrackFinishes
    \/ \E m \in live : ExternalDelete(m)

SpecShow == Init /\ [][NextShow]_vars

\* the queue commands, stop and skip on the guild's session, running between
\* the steps of a play and between the hooks; no external call fails
NextQueue ==
    \/ Idle /\ PlayJoin(1, 1, 1, "none")
    \/ \E load \in Loads : PlayAppend(1, load)
    \/ PlayFinish(1)
    \/ \E track_number \in 0..(MaxTracks + 1) : Remove(track_number)
    \/ Clear
    \/ List
    \/ Stop
    \/ Skip
    \/ \E e \in events : OnTrackStart(e, TRUE)
    \/ \E e \in events : OnTrackEnd(e)
    \/ TrackFinishes

SpecQueue == Init /\ [][NextQueue]_vars

\* every command that needs a session, on a guild that plays single tracks
\* and whose sessions the ready hook removes
NextPlayback ==
    \/ Idle /\ PlayJoin(1, 1, 1, "none")
    \/ \E load \in {l \in Loads : l.kind = "track"} : PlayAppend(1, load)
    \/ PlayFinish(1)
    \/ Pause
    \/ Resume
    \/ Stop
    \/ Skip
    \/ List
    \/ \E track_number \in 0..(MaxTracks + 1) : Remove(track_number)
    \/ Clear
    \/ \E e \in events : OnTrackStart(e, TRUE)
    \/ \E e \in events : OnTrackEnd(e)
    \/ TrackFinishes
    \/ ready_event

SpecPlayback == Init /\ [][NextPlayback]_vars

\* join, leave and play with either external call failing
NextOrder ==
    \/ Idle /\ \E v \in VoiceChannels \cup {NoChannel}, f \in Fails : Join(v, 1, 1, f)
    \/ Idle /\ LeaveStart
    \/ \E f \in Fails : LeaveFinish(f)
    \/ Idle /\ \E f \in Fails : LeaveNoContext(f)
    \/ Idle /\ \E f \in Fails : PlayJoin(1, 1, 1, f)
    \/ PlayAppend(1, [kind |-> "track", ids |-> <<"A">>])
    \/ PlayFinish(1)
    \/ \E e \in events : OnTrackStart(e, TRUE)
    \/ \E e \in events : OnTrackEnd(e)

SpecOrder == Init /\ [][NextOrder]_vars

\* queue remove step by step beside the events of the player; play runs
\* between two removes, so only the end of a track advances the queue under
\* a remove
NextRemove ==
    \/ Idle /\ rm.pc = "idle" /\ PlayJoin(1, 1, 1, "none")
    \/ \E load \in {l \in Loads : l.kind \in {"track", "playlist"}} : PlayAppend(1, load)
    \/ PlayFinish(1)
    \/ \E e \in events : OnTrackStart(e, TRUE)
    \/ \E e \in events : OnTrackEnd(e)
    \/ TrackFinishes
    \/ Idle /\ \E track_number \in 0..MaxTracks + 1 : RemoveCheck(track_number)
    \/ RemoveGet
    \/ RemoveSend

SpecRemove == Init /\ [][NextRemove]_vars

\* the two mutexes of the data step by step: play with its setter as a
\* step of its own, the hooks with each lock acquisition as a step
NextLocks ==
    \/ Idle /\ NoHook /\ PlayCreate(1, 1)
    \/ PlaySetChannel(1, 1)
    \/ PlayAppend(1, [kind |-> "track", ids |-> <<"A">>])
    \/ PlayFinish(1)
    \/ \E h \in Hooks, e \in events : HookBegin(h, e)
    \/ \E h \in Hooks : HookLock(h)
    \/ \E h \in Hooks : HookDelete(h)
    \/ \E h \in Hooks : HookChannelLock(h)
    \/ \E h \in Hooks : HookPost(h, TRUE)
    \/ TrackFinishes

\* the runtime keeps running the tasks that can run: a task whose awaited
\* request is answered or whose mutex is free takes its step
SpecLocks ==
    /\ Init /\ [][NextLocks]_vars
    /\ WF_vars(\/ PlaySetChannel(1, 1)
               \/ \E h \in Hooks : \/ HookLock(h) \/ HookDelete(h)
                                    \/ HookChannelLock(h) \/ HookPost(h, TRUE))

\* plays of two authors, playlists of one and two tracks, with the events of
\* the player
NextStamp ==
    \/ \E p \in Procs : PlayJoin(p, 1, 1, "none")
    \/ \E p \in Procs, ids \in {<<"A">>, <<"A", "B">>} :
          PlayAppend(p, [kind |-> "playlist", ids |-> ids])
    \/ \E p \in Procs : PlayFinish(p)
    \/ \E e \in events : OnTrackStart(e, TRUE)
    \/ \E e \in events : OnTrackEnd(e)
    \/ TrackFinishes

SpecStamp == Init /\ [][NextStamp]_vars

\* ----------------------------------------------------------- two guilds
\* The handlers once more on the stores as the code keys them: every lookup
\* takes the guild id of the command or event. A handler runs in one step,
\* tracks are their identifiers, and the hook of an event runs on the track
\* the guild's player holds.

\* everything but the keyed stores
single == <<call, cur, ctx, srvTrack, events, live, nextTrack, pc, pctx, lpc, paused, hpc,
            hk, rm, store>>

\* create_player_context_with_data(guild_id, ..): a new context for the
\* guild, with the data built at the call and an empty queue
create_player_context_with_data(guilds_, guild_id, text_channel_id) ==
    [guilds_ EXCEPT ![guild_id].context = TRUE,
                    ![guild_id].channel_id = text_channel_id,
                    ![guild_id].now_playing_embed = "none",
                    ![guild_id].queue = <<>>]

\* a delete_player that removes the context of every guild
delete_player_every_guild(guilds_, guild_id) ==
    [g \in Guilds |-> [NoGuildState EXCEPT !.call = guilds_[g].call]]

\* delete_player(guild_id): the context of the guild is removed and its
\* player on the server destroyed
delete_player(guilds_, guild_id) ==
    [guilds_ EXCEPT ![guild_id] = [NoGuildState EXCEPT !.call = guilds_[guild_id].call]]

\* a delete_all_player_contexts that stops after the first guild
delete_first_player_context(guilds_) == delete_player(guilds_, 1)

\* delete_all_player_contexts: delete_player for every guild of the map
delete_all_player_contexts(guilds_) ==
    [g \in Guilds |-> delete_player(guilds_, g)[g]]

\* PlayerContext::skip of a guild: the queue head becomes the player's track
skip(guilds_, guild_id) ==
    IF guilds_[guild_id].queue # <<>>
    THEN [guilds_ EXCEPT ![guild_id].track = Head(guilds_[guild_id].queue),
                         ![guild_id].queue = Tail(guilds_[guild_id].queue)]
    ELSE [guilds_ EXCEPT ![guild_id].track = "none"]

\* clear the queue and skip when a track plays, then leave_voice_channel:
\* the body shared by the leave command and the voice-state handler
GuildTeardown(guild_id) ==
    [delete_player(guilds, guild_id) EXCEPT ![guild_id].call = [channel |-> -1]]

\* the join command in guild guild_id
GuildJoin(guild_id, voice_channel, author_channel, text_channel_id) ==
    LET target == resolve_target_voice_channel_id(voice_channel, author_channel) IN
    /\ guilds' = IF target = NoChannel THEN guilds
                 ELSE [create_player_context_with_data(guilds, guild_id, text_channel_id)
                          EXCEPT ![guild_id].call = [channel |-> target]]
    /\ last' = <<"join", IF target = NoChannel THEN "MissingTargetVoiceChannel"
                         ELSE "Connected">>
    /\ UNCHANGED single

\* the leave command in guild guild_id
GuildLeave(guild_id) ==
    /\ guilds' = GuildTeardown(guild_id)
    /\ last' = <<"leave", IF guilds[guild_id].call.channel = -1 THEN "NotConnected"
                          ELSE "Disconnected">>
    /\ UNCHANGED single

\* the play command in guild guild_id: join_voice_channel, the text channel,
\* the append of the resolved tracks, and skip when nothing plays
GuildPlay(guild_id, author_channel, text_channel_id, ids) ==
    LET target == resolve_target_voice_channel_id(NoChannel, author_channel)
        joined == [create_player_context_with_data(guilds, guild_id, text_channel_id)
                      EXCEPT ![guild_id].call = [channel |-> target],
                             ![guild_id].queue = ids]
    IN
    /\ guilds' = IF target = NoChannel THEN guilds
                 ELSE IF joined[guild_id].track = "none" THEN skip(joined, guild_id)
                 ELSE joined
    /\ last' = <<"play", IF target = NoChannel THEN "MissingTargetVoiceChannel" ELSE "Added">>
    /\ UNCHANGED single

\* the stop command in guild guild_id
GuildStop(guild_id) ==
    /\ guilds' = IF guilds[guild_id].context /\ guilds[guild_id].track # "none"
                 THEN [guilds EXCEPT ![guild_id].queue = <<>>, ![guild_id].track = "none"]
                 ELSE guilds
    /\ last' = <<"stop", IF ~guilds[guild_id].context THEN "NotConnected"
                         ELSE IF guilds[guild_id].track # "none" THEN "Stopped"
                         ELSE "NothingPlaying">>
    /\ UNCHANGED single

\* the skip command in guild guild_id
GuildSkip(guild_id) ==
    /\ guilds' = IF guilds[guild_id].context /\ guilds[guild_id].track # "none"
                 THEN skip(guilds, guild_id)
                 ELSE guilds
    /\ last' = <<"skip", IF ~guilds[guild_id].context THEN "NotConnected"
                         ELSE IF guilds[guild_id].track # "none" THEN "Skipped"
                         ELSE "NothingPlaying">>
    /\ UNCHANGED single

\* queue remove in guild guild_id
GuildRemove(guild_id, track_number) ==
    LET ok == /\ guilds[guild_id].context
              /\ 0 < track_number /\ track_number <= Len(guilds[guild_id].queue)
    IN
    /\ guilds' = IF ok
                 THEN [guilds EXCEPT ![guild_id].queue = QueueRemove(@, track_number - 1)]
                 ELSE guilds
    /\ last' = <<"remove", IF ~guilds[guild_id].context THEN "NotConnected"
                           ELSE IF ok THEN "Removed" ELSE "InvalidTrackNumber">>
    /\ UNCHANGED single

\* queue clear in guild guild_id
GuildClear(guild_id) ==
    /\ guilds' = IF guilds[guild_id].context
                 THEN [guilds EXCEPT ![guild_id].queue = <<>>]
                 ELSE guilds
    /\ last' = <<"clear", IF guilds[guild_id].context THEN "Cleared" ELSE "NotConnected">>
    /\ UNCHANGED single

\* the track_start hook of an event of guild guild_id: it replaces the status
\* message in the slot of the guild's context
GuildTrackStart(guild_id) ==
    /\ guilds[guild_id].context
    /\ guilds[guild_id].track # "none"
    /\ guilds' = [guilds EXCEPT ![guild_id].now_playing_embed = guilds[guild_id].track]
    /\ last' = <<"track_start", "posted">>
    /\ UNCHANGED single

\* the track of guild guild_id finishes: the client advances the guild's
\* queue, and the track_end hook empties the slot when it names the track
GuildTrackEnd(guild_id) ==
    LET ended == guilds[guild_id].track IN
    /\ guilds[guild_id].context
    /\ ended # "none"
    /\ guilds' = [skip(guilds, guild_id) EXCEPT
                     ![guild_id].now_playing_embed = IF @ = ended THEN "none" ELSE @]
    /\ last' = <<"track_end", IF guilds[guild_id].now_playing_embed = ended
                              THEN "cleared" ELSE "ignored">>
    /\ UNCHANGED single

\* the voice-state handler on an update of guild guild_id that leaves
\* user_count members in the channel of the guild's Call
GuildVoiceState(guild_id, user_count) ==
    LET returns == \/ guilds[guild_id].call.channel \in {-1, NoChannel}
                   \/ user_count > 1
    IN
    /\ guilds' = IF returns THEN guilds ELSE GuildTeardown(guild_id)
    /\ last' = <<"voice_state", IF returns THEN "returned" ELSE "Disconnected">>
    /\ UNCHANGED single

\* the ready hook: it names no guild
GuildReady ==
    /\ guilds' = delete_all_player_contexts(guilds)
    /\ last' = <<"ready", "none">>
    /\ UNCHANGED single

\* a command, hook or voice-state update of guild guild_id
GuildStep(guild_id) ==
    \/ \E v \in VoiceChannels \cup {NoChannel} : GuildJoin(guild_id, v, 1, 1)
    \/ GuildLeave(guild_id)
    \/ \E a \in {NoChannel, 1}, ids \in {<<"A">>, <<"A", "B">>} :
          GuildPlay(guild_id, a, 1, ids)
    \/ GuildStop(guild_id)
    \/ GuildSkip(guild_id)
    \/ \E track_number \in 0..MaxTracks : GuildRemove(guild_id, track_number)
    \/ GuildClear(guild_id)
    \/ GuildTrackStart(guild_id)
    \/ GuildTrackEnd(guild_id)
    \/ \E user_count \in 1..2 : GuildVoiceState(guild_id, user_count)

NextGuilds ==
    \/ \E guild_id \in Guilds : GuildStep(guild_id)
    \/ GuildReady

SpecGuilds == Init /\ [][NextGuilds]_vars

\* ------------------------------------------------------------ state_store.rs
\* the state types the modules register
StateTypes == {"AudioPlayerState", "TestState"}

\* number of insert calls
MaxInserts == 3

\* Option::None of get
NoState == 0

\* an insert that keeps the value a type already has
insert_if_vacant(registry, T, value) ==
    IF \E kv \in registry : kv[1] = T THEN registry
    ELSE registry \cup {<<T, [type |-> T, arc |-> value]>>}

\* StateStore::insert::<T>(value): the registry is a map from TypeId (the
\* name of the type) to the boxed value (the Arc, named by its allocation,
\* with the type it has), and DashMap::insert replaces the entry of the key
insert(registry, T, value) ==
    {kv \in registry : kv[1] # T} \cup {<<T, [type |-> T, arc |-> value]>>}

\* downcast_ref::<Arc<T>>() on a boxed value, Arc::clone of what it finds
downcast_ref(boxed, T) == IF boxed.type = T THEN boxed.arc ELSE NoState

\* StateStore::get::<T>(): DashMap::get of the key, then the downcast
get(registry, T) ==
    IF \E kv \in registry : kv[1] = T
    THEN downcast_ref((CHOOSE kv \in registry : kv[1] = T)[2], T)
    ELSE NoState

\* get_lavalink_client: the client of the registered AudioPlayerState
get_lavalink_client(registry) ==
    IF get(registry, "AudioPlayerState") # NoState THEN "Ok" ELSE "StateNotRegistered"

\* a module's setup inserts its state
StoreInsert(T, value) ==
    /\ Len(store.inserts) < MaxInserts
    /\ store' = [registry |-> insert(store.registry, T, value),
                 inserts |-> Append(store.inserts, <<T, value>>)]
    /\ last' = <<"insert", T>>
    /\ UNCHANGED <<call, cur, ctx, srvTrack, events, live, nextTrack, pc, pctx, lpc, paused,
                   hpc, hk, rm, guilds>>

\* a command reads the state of type T
StoreGet(T) ==
    /\ last' = <<"get", IF get(store.registry, T) = NoState THEN "None" ELSE "Some">>
    /\ UNCHANGED <<call, cur, ctx, srvTrack, events, live, nextTrack, pc, pctx, lpc, paused,
                   hpc, hk, rm, guilds, store>>

\* a command or handler of the audio player takes the client
GetLavalinkClient ==
    /\ last' = <<"get_lavalink_client", get_lavalink_client(store.registry)>>
    /\ UNCHANGED <<call, cur, ctx, srvTrack, events, live, nextTrack, pc, pctx, lpc, paused,
                   hpc, hk, rm, guilds, store>>

NextStore ==
    \/ \E T \in StateTypes, value \in {1, 2} : StoreInsert(T, value)
    \/ \E T \in StateTypes : StoreGet(T)
    \/ GetLavalinkClient

SpecStore == Init /\ [][NextStore]_vars

\* ---------------------------------------------------------------- claims
\* the now-playing slot of the guild's session
Slot == ctx[cur].now_playing_embed

\* C1: under any interleaving of join, play, stop, skip, leave and the
\* track-start / track-end callbacks, the guild has at most one live
\* now-playing message.
C1_AtMostOneLiveMessage == Cardinality(live) <= 1

\* C2: a track-end callback deletes the status message and empties the slot
\* exactly when the slot is non-empty and the identifier it stores equals the
\* identifier of the track that ended; in every other case the slot and the
\* messages are as before.
C2_TrackEndClearsIffMatch ==
    [][\A e \in events : OnTrackEnd(e) =>
          IF cur # 0 /\ Slot # NoSlot /\ Slot.track_identifier = e.track.identifier
          THEN /\ ctx'[cur].now_playing_embed = NoSlot
               /\ live' = live \ {Slot.message}
          ELSE /\ live' = live
               /\ cur # 0 => ctx'[cur].now_playing_embed = Slot]_vars

\* C2, its case: a track-end whose identifier the slot stored has run and
\* the slot is empty, the message gone
C2_Witness ==
    /\ last = <<"track_end", "cleared">>
    /\ cur # 0 /\ Slot = NoSlot
    /\ live = {}

\* C3: a track-end callback for a track instance that a later-started track
\* has superseded (the slot holds the message the later track's track-start
\* posted) does not empty the slot and does not delete that message, also
\* when both instances have the same identifier.
C3_StaleTrackEndIgnored ==
    [][\A e \in events :
          OnTrackEnd(e) /\ cur # 0 /\ Slot # NoSlot /\ Slot.message > e.track.n
          => ctx'[cur].now_playing_embed = Slot /\ live' = live]_vars

\* the guild's Call is connected to a voice channel
Connected == call.channel \in VoiceChannels

\* C4: the guild has a player session exactly when it has a voice
\* connection, whatever join, play, leave, the ready hook and failed calls
\* have done.
C4_SessionIffVoice == (cur # 0) <=> Connected

\* a step that completes leave_voice_channel
LeaveCompletes(fail) == LeaveFinish(fail) \/ LeaveNoContext(fail)

\* a step in which join_voice_channel succeeds
JoinSucceeds ==
    \/ \E v, a \in VoiceChannels \cup {NoChannel}, t \in TextChannels :
          /\ Join(v, a, t, "none")
          /\ resolve_target_voice_channel_id(v, a) # NoChannel
    \/ \E p \in Procs, a \in VoiceChannels, t \in TextChannels : PlayJoin(p, a, t, "none")

\* C5: when no call fails, a successful join gives the guild a voice
\* connection that stays until a leave; the leave then answers Disconnected
\* and no session and no connection remain; until another join succeeds
\* there is no connection, and a leave answers NotConnected and changes
\* nothing.
C5_LeaveAfterJoin ==
    [][/\ JoinSucceeds => call' # NoCall /\ cur' # 0
       /\ call # NoCall /\ call' = NoCall => LeaveCompletes("none")
       /\ call = NoCall /\ call' # NoCall => JoinSucceeds
       /\ LeaveCompletes("none") =>
             IF call # NoCall
             THEN /\ last' = <<"leave", "Disconnected">>
                  /\ cur' = 0 /\ call' = NoCall
             ELSE /\ last' = <<"leave", "NotConnected">>
                  /\ UNCHANGED <<call, cur, ctx, srvTrack, events, live>>]_vars

\* C5, its case: a play has joined, a leave has disconnected, and a further
\* leave has been answered NotConnected
C5_Witness ==
    /\ last = <<"leave", "NotConnected">>
    /\ nextTrack > 1
    /\ call = NoCall /\ cur = 0

\* C6: a leave whose teardown on the audio server fails still removes the
\* guild's voice transport.
C6_FailedTeardownStillDisconnects ==
    [][LeaveCompletes("lavalink") /\ Connected => call' = NoCall]_vars

\* C7: a join that fails at connecting or at creating the session leaves
\* no orphan: no session without voice, no transport handle without session.
C7_FailedJoinLeavesNoOrphan ==
    [][\A v, a \in VoiceChannels \cup {NoChannel}, t \in TextChannels,
          f \in {"songbird", "lavalink"} :
          /\ Join(v, a, t, f)
          /\ resolve_target_voice_channel_id(v, a) # NoChannel
          /\ (cur # 0) <=> (call # NoCall)
          => ((cur' # 0) <=> (call' # NoCall))]_vars

\* C8: a join for a guild that has a session creates no second one: the
\* session is there afterwards with the queue and the now-playing slot it
\* had.
C8_JoinKeepsSession ==
    [][\A v, a \in VoiceChannels \cup {NoChannel}, t \in TextChannels :
          /\ Join(v, a, t, "none")
          /\ resolve_target_voice_channel_id(v, a) # NoChannel
          /\ cur # 0
          => /\ cur' # 0
             /\ ctx'[cur'].queue = ctx[cur].queue
             /\ ctx'[cur'].now_playing_embed = Slot]_vars

\* C9: of two play calls in quick succession with nothing playing, only the
\* first starts playback: a play that ends while the server already plays
\* a track signals no playback start and the server goes on with its track.
C9_SecondPlayOnlyAppends ==
    [][\A p \in Procs : PlayFinish(p) /\ srvTrack # NoTrack
          => srvTrack' = srvTrack /\ events' = events]_vars

\* C10: after a successful play the queue is the queue from before the call
\* followed by the resolved tracks in their order: the join inside play
\* keeps the entries of the session's queue and the append puts the
\* resolved tracks behind them.
C10_PlayAppendsToQueue ==
    [][/\ \A p \in Procs, a \in VoiceChannels, t \in TextChannels :
             PlayJoin(p, a, t, "none") /\ cur # 0
             => ctx'[cur'].queue = ctx[cur].queue
       /\ \A p \in Procs, load \in Loads :
             PlayAppend(p, load) /\ ~PlayEnds(load)
             => ctx'[pctx[p]].queue =
                   ctx[pctx[p]].queue
                   \o WithUserData(Stamp(Resolved(load), nextTrack),
                                   to_value(TrackUserData(p)))]_vars

\* C11: a play for a guild that has a session uses that session without
\* joining again: the Call stays in its voice channel, and the play is not
\* refused for lack of a target voice channel when the requester is in no
\* voice channel.
C11_PlayUsesExistingSession ==
    [][\A p \in Procs, a \in VoiceChannels \cup {NoChannel}, t \in TextChannels :
          PlayJoin(p, a, t, "none") /\ cur # 0 /\ Connected
          => /\ call' = call
             /\ last' # <<"play", "MissingTargetVoiceChannel">>]_vars

\* C12: when play, after appending, finds no track in the session's player
\* (and a track at the queue head), it signals the audio server to start
\* the queue head; when the player has a track, play sends no playback
\* signal and the playing track is as before.
C12_PlayStartsIffNothingPlaying ==
    [][\A p \in Procs : PlayFinish(p) =>
          LET c == pctx[p] IN
          IF ctx[c].track = NoTrack /\ ctx[c].queue # <<>>
          THEN /\ srvTrack' = Head(ctx[c].queue)
               /\ TrackStart(Head(ctx[c].queue)) \in events'
          ELSE /\ srvTrack' = srvTrack
               /\ events' = events]_vars

\* C12, its case: a play has found nothing playing and the server has
\* started the queue head
C12_Witness ==
    /\ last = <<"play", "skip">>
    /\ srvTrack # NoTrack
    /\ TrackStart(srvTrack) \in events

\* the queue of the guild's session
Queue == ctx[cur].queue

\* C13: queue remove with a one-based index outside [1, count], 0 and
\* count + 1 included, answers with the out-of-range response and leaves
\* the queue as it was, for every queue length, the empty queue included.
C13_RemoveOutOfRange ==
    [][\A track_number \in 0..(MaxTracks + 1) :
          /\ Remove(track_number)
          /\ cur # 0
          /\ ~(1 <= track_number /\ track_number <= Len(Queue))
          => /\ last' = <<"remove", "InvalidTrackNumber">>
             /\ ctx' = ctx]_vars

\* C13, its case: an out-of-range remove on a session with a non-empty queue
C13_Witness ==
    /\ last = <<"remove", "InvalidTrackNumber">>
    /\ cur # 0
    /\ Queue # <<>>

C15_ClearOnlyEmptiesQueue ==
    [][Clear /\ cur # 0
       => /\ last' = <<"clear", "Cleared">>
          /\ ctx'[cur].queue = <<>>
          /\ ctx'[cur].track = ctx[cur].track
          /\ ctx'[cur].now_playing_embed = Slot
          /\ UNCHANGED <<srvTrack, paused, events, live>>]_vars

\* C15, its case: a clear while track 1 plays, after a second track was
\* resolved, has left an empty queue and the track playing
C15_Witness ==
    /\ last = <<"clear", "Cleared">>
    /\ cur # 0 /\ Queue = <<>>
    /\ srvTrack # NoTrack /\ srvTrack.n = 1 /\ ctx[cur].track = srvTrack
    /\ nextTrack > 2

\* C16: stop on a session whose player has a track empties the queue and
\* signals the audio server to end the track (a track-end with reason
\* stopped is emitted, the server plays nothing), and the handling of that
\* track-end starts no track and leaves the queue alone; stop on a session
\* with nothing playing answers "nothing is playing" and leaves the queue
\* as it was.
C16_StopClearsAndEnds ==
    [][/\ Stop /\ cur # 0 =>
             IF ctx[cur].track # NoTrack
             THEN /\ last' = <<"stop", "Stopped">>
                  /\ ctx'[cur].queue = <<>> /\ ctx'[cur].track = NoTrack
                  /\ srvTrack' = NoTrack
                  /\ srvTrack # NoTrack => TrackEnd(srvTrack, "stopped") \in events'
             ELSE /\ last' = <<"stop", "NothingPlaying">>
                  /\ UNCHANGED <<ctx, srvTrack, events>>
       /\ \A e \in events : OnTrackEnd(e) /\ e.reason = "stopped" /\ cur # 0
             => /\ srvTrack' = srvTrack
                /\ ctx'[cur].queue = Queue
                /\ ctx'[cur].track = ctx[cur].track]_vars

\* C16, its case: a stop has ended the playing track and emptied the queue
C16_Witness ==
    /\ last = <<"stop", "Stopped">>
    /\ Queue = <<>> /\ ctx[cur].track = NoTrack /\ srvTrack = NoTrack
    /\ \E e \in events : e.kind = "end" /\ e.reason = "stopped"
    /\ nextTrack > 2

\* C17: pause sets the pause flag and resume resets it when the session's
\* player has a track; without a track they answer "nothing is playing" and
\* change nothing; neither changes the queue or the now-playing slot.
C17_PauseResumeOnActiveTrack ==
    [][/\ Pause /\ cur # 0 =>
             /\ IF ctx[cur].track # NoTrack
                THEN last' = <<"pause", "Paused">> /\ paused' = TRUE
                ELSE last' = <<"pause", "NothingPlaying">> /\ paused' = paused
             /\ UNCHANGED <<call, cur, ctx, srvTrack, events, live>>
       /\ Resume /\ cur # 0 =>
             /\ IF ctx[cur].track # NoTrack
                THEN last' = <<"resume", "Resumed">> /\ paused' = FALSE
                ELSE last' = <<"resume", "NothingPlaying">> /\ paused' = paused
             /\ UNCHANGED <<call, cur, ctx, srvTrack, events, live>>]_vars

\* C17, its case: a resume has reset the flag that a pause had set on the
\* playing track
C17_Witness ==
    /\ last = <<"resume", "Resumed">>
    /\ ~paused
    /\ srvTrack # NoTrack /\ ctx[cur].track = srvTrack

\* a step of a command that needs the guild's session
SessionCommand ==
    \/ Stop \/ Pause \/ Resume \/ Skip \/ List \/ Clear
    \/ \E track_number \in 0..(MaxTracks + 1) : Remove(track_number)

\* C19: stop, pause, resume, skip, queue list, queue remove and queue clear
\* for a guild without a session each answer with the not-connected reply
\* and change no state.
C19_NoSessionNotConnected ==
    [][SessionCommand /\ cur = 0
       => /\ last'[2] = "NotConnected"
          /\ UNCHANGED <<call, cur, ctx, srvTrack, events, live, nextTrack, paused,
                         pc, pctx>>]_vars

\* C19, its case: a queue remove was answered not-connected on a guild
\* whose session, with tracks resolved, had been removed
C19_Witness ==
    /\ last = <<"remove", "NotConnected">>
    /\ cur = 0
    /\ nextTrack > 1

\* nothing is playing, the queue and the slot are empty, no message is live
SkippedOut ==
    /\ cur # 0
    /\ Queue = <<>> /\ ctx[cur].track = NoTrack /\ srvTrack = NoTrack
    /\ Slot = NoSlot /\ live = {}

\* C18: after join and play of a single track that plays with its status
\* message posted, a skip leads to a state where the queue is empty, nothing
\* plays, the slot is empty and the message is deleted; the skip itself
\* reports the playing track and signals the server (a track-end is emitted)
\* without touching the slot or the message.
C18_SkipEventuallyRetiresMessage ==
    /\ [][Skip /\ cur # 0 /\ ctx[cur].track # NoTrack
          => /\ last' = <<"skip", "Skipped">>
             /\ SkipReports = srvTrack
             /\ TrackEnd(srvTrack, "stopped") \in events'
             /\ ctx'[cur].now_playing_embed = Slot
             /\ live' = live]_vars
    /\ (last = <<"skip", "Skipped">>) ~> SkippedOut

\* C18, its case: the track-end of the skipped single track was handled and
\* the message is gone
C18_Witness ==
    /\ SkippedOut
    /\ last = <<"track_end", "cleared">>
    /\ nextTrack = 2
    /\ events = {}

\* the voice transport is removed and the session deleted
TornDown == call = NoCall /\ cur = 0

\* C20: once the voice-state handler has torn the session down and every
\* event of the server was handled, no now-playing message is live.
C20_AutoLeaveLeavesNoMessage ==
    TornDown /\ hpc = "idle" /\ events = {} => live = {}

\* members of the bot's channel that are not bots
NonBotCount(voice_states) ==
    Cardinality({u \in Users : ~IsBot(u) /\ voice_states[u] = call.channel})

\* C21: on a voice-state update of a guild whose bot is in a voice channel,
\* the teardown is triggered exactly when no non-bot member is in that
\* channel.
C21_TeardownIffNoNonBot ==
    [][\A voice_states \in VoiceStates :
          VoiceStateUpdate(voice_states) /\ Connected
          => ((hpc' = "sleep" \/ last'[1] = "leave") <=> NonBotCount(voice_states) = 0)]_vars

\* C22: the teardown of leave never runs while a track-start or track-end
\* hook holds the slot of the session (deleting its message or about to
\* write the slot).
C22_TeardownAfterHooksSettle ==
    [][LeaveFinish("none") /\ cur # 0 => ~SlotLocked(cur)]_vars

\* C23: the hooks of one guild exclude each other on the slot (at most one
\* hook holds the lock of a context's data), and no hook asks the platform to
\* delete a status message that a hook has deleted before.
C23_HooksExcludeEachOther ==
    /\ \A g, h \in Hooks :
          /\ g # h
          /\ hk[g].pc \in {"delete", "send"}
          /\ hk[h].pc \in {"delete", "send"}
          => hk[g].c # hk[h].c
    /\ last[2] # "already deleted"

\* C23, its case: a track_end hook and a track_start hook of the same context
\* are in flight together, one holding the slot lock for its delete request
\* and the other waiting for the lock
C23_Witness ==
    /\ hk[1].pc = "delete" /\ hk[1].e.kind = "end"
    /\ hk[2].pc = "lock" /\ hk[2].e.kind = "start"
    /\ hk[1].c = hk[2].c

\* C24: a join or play command on a guild that has a session leaves the
\* session's now-playing slot as it was (the slot is written by the hooks
\* only).
C24_CommandsKeepSlot ==
    [][/\ cur # 0
       /\ \/ \E v, a \in VoiceChannels \cup {NoChannel}, t \in TextChannels :
                Join(v, a, t, "none")
          \/ \E a \in VoiceChannels \cup {NoChannel}, t \in TextChannels :
                PlayJoin(1, a, t, "none")
       => cur' # 0 /\ ctx'[cur'].now_playing_embed = Slot]_vars

\* C25: once the hooks have run to their end, a non-empty slot holds the
\* identifier of the track of the most recent track-start callback the
\* session received.
C25_SlotNamesLastStart ==
    cur # 0 /\ Slot # NoSlot /\ NoHook
    => Slot.track_identifier = ctx[cur].started.identifier

\* C26: no track-start or track-end callback reaches the unwrap/expect on a
\* missing player context.
C26_NoMissingSessionPanic ==
    ~(last[1] \in {"track_start", "track_end"} /\ last[2] = "panic")

\* C27: play, skip, queue list and queue remove never end in a panic on what
\* the resolver answers: a track without a uri is handled normally.
C27_NoPanicOnResolverOutput ==
    ~(last[1] \in {"play", "skip", "list", "remove"} /\ last[2] = "panic")

\* C28: join resolves its target to the requested channel when one is given,
\* whatever the requester's voice state, else to the requester's voice
\* channel; with neither it answers MissingTargetVoiceChannel and connects
\* nothing.
C28_TargetResolution ==
    [][\A v, a \in VoiceChannels \cup {NoChannel}, t \in TextChannels :
          Join(v, a, t, "none")
          => IF v # NoChannel
             THEN call'.channel = v /\ last' = <<"join", "Connected">>
             ELSE IF a # NoChannel
             THEN call'.channel = a /\ last' = <<"join", "Connected">>
             ELSE /\ last' = <<"join", "MissingTargetVoiceChannel">>
                  /\ UNCHANGED <<call, cur, ctx>>]_vars

\* C28, its case: a join has connected the bot to channel 2
C28_Witness ==
    last = <<"join", "Connected">> /\ call.channel = 2 /\ cur = JoinCmd

\* C29: a join or play that succeeds makes its text channel the session's
\* target, and a track-start callback posts its status message to the target
\* of the guild's session at the time it posts.
C29_PostsToCurrentTextChannel ==
    [][/\ \A t \in TextChannels :
             (Join(1, 1, t, "none") \/ PlayJoin(1, 1, t, "none"))
             => cur' # 0 /\ ctx'[cur'].channel_id = t
       /\ \A h \in Hooks :
             HookSend(h, TRUE) /\ cur # 0
             => SendChannel(ctx[hk[h].c]) = ctx[cur].channel_id]_vars

\* the page size the listing is to have
PageSize == 10

\* the entries of the first page of the queue
FirstPage(queue) ==
    SubSeq(queue, 1, IF Len(queue) < PageSize THEN Len(queue) ELSE PageSize)

\* C30: queue list shows, for every queue length, exactly the queue entries of
\* the page in queue order, pages having 10 entries.
C30_ListShowsWholePage ==
    [][List /\ cur # 0
       => /\ ListShown = FirstPage(ctx[cur].queue)
          /\ last'[2] \in {"Queue", "QueueIsEmpty"}
          /\ UNCHANGED ctx]_vars

\* C31: the session a successful join leaves the guild with has an empty
\* queue and an empty slot, whatever sessions the guild had before.
C31_JoinStartsEmpty ==
    [][(\E v, a \in VoiceChannels \cup {NoChannel}, t \in TextChannels :
            Join(v, a, t, "none"))
       /\ last' = <<"join", "Connected">>
       => /\ cur' # 0
          /\ ctx'[cur'].queue = <<>>
          /\ ctx'[cur'].now_playing_embed = NoSlot]_vars

\* C31, its case: a join has connected after earlier plays resolved every
\* track, and the context of the play command is gone
C31_Witness ==
    /\ last = <<"join", "Connected">>
    /\ cur = JoinCmd
    /\ nextTrack = MaxTracks + 1
    /\ srvTrack = NoTrack
    /\ \A p \in Procs : ctx[p] = Dropped

\* C32: a track_start hook whose delete request fails goes on to post, and a
\* track_start hook whose post succeeds leaves the slot of its context
\* showing the identifier of its track with the message it posted.
C32_TrackStartShowsNewMessage ==
    [][\A h \in Hooks :
          /\ HookDelete(h) /\ hk[h].e.kind = "start" => hk'[h].pc = "send"
          /\ HookSend(h, TRUE)
             => /\ ctx'[hk[h].c].now_playing_embed =
                      NowPlayingEmbed(hk[h].e.track.identifier, hk[h].e.track.n)
                /\ hk[h].e.track.n \in live']_vars

\* C32, its case: the delete request of a track_start hook has failed (a user
\* had deleted the previous message) and the hook is at its post
C32_Witness ==
    /\ last = <<"track_start", "already deleted">>
    /\ \E h \in Hooks : hk[h].pc = "send" /\ hk[h].e.kind = "start" /\ hk[h].m # 0

\* C33: join and leave sequence their two external calls in a fixed order. A
\* join whose gateway connect fails creates no session, and a join that
\* creates a session has connected the voice handle to its target first; a
\* leave disconnects the gateway only after the audio-server teardown was
\* made, and a failed teardown leaves the voice handle as it was.
C33_ExternalCallOrder ==
    [][/\ \A v \in VoiceChannels \cup {NoChannel}, f \in Fails :
             Join(v, 1, 1, f)
             => /\ f = "songbird" => UNCHANGED <<cur, ctx, srvTrack>>
                /\ cur' # cur
                   => call' = [channel |-> resolve_target_voice_channel_id(v, 1)]
       /\ \A f \in Fails :
             LeaveFinish(f) \/ LeaveNoContext(f)
             => /\ f = "lavalink" => UNCHANGED <<call, cur>>
                /\ call' # call => cur' = 0 /\ srvTrack' = NoTrack]_vars

\* a join failed at the gateway after an earlier session was torn down: the
\* guild has no session, no player on the server, and the handle of the call
C33_Witness ==
    /\ last = <<"join", "SongbirdError">>
    /\ cur = 0 /\ srvTrack = NoTrack /\ call = [channel |-> NoChannel]
    /\ nextTrack > 1

\* C34: when a track-end callback advances the queue between the range check
\* of queue remove and its removal, remove never reads an index that no
\* longer exists and removes exactly the entry it reports.
C34_RemoveSurvivesAdvance ==
    [][/\ RemoveGet => get_track(ctx[cur].queue, rm.index) # NoTrack
       /\ RemoveSend
          => /\ get_track(ctx[cur].queue, rm.index) = rm.track
             /\ Len(ctx'[cur].queue) = Len(ctx[cur].queue) - 1]_vars

\* C35: auto-leave tears the session down only if the channel is still
\* without other members at teardown time: when a member joined during the
\* grace period, the end of the sleep leaves session and voice handle alone.
C35_NoTeardownAfterRejoin ==
    [][AutoLeaveFinish("none") /\ hpc = "sleep occupied" => UNCHANGED <<call, cur>>]_vars

\* C36: the two per-session locks never deadlock: a hook that waits for the
\* slot lock gets it, a track_start hook that holds the slot and waits for
\* the text-channel lock gets it, and the setter of play that waits for the
\* text-channel lock gets it.
C36_LocksGranted ==
    /\ \A h \in Hooks : (hk[h].pc = "lock") ~> (hk[h].pc # "lock")
    /\ \A h \in Hooks : (hk[h].pc = "send") ~> (hk[h].pc = "post")
    /\ (pc[1] = "created") ~> (pc[1] = "joined")

\* the setter waits for the text-channel lock a track_start hook holds over
\* its send, and another hook waits for the slot lock that hook holds
C36_Witness ==
    /\ pc[1] = "created"
    /\ \E h, g \in Hooks :
          /\ hk[h].pc = "post" /\ hk[h].c = pctx[1]
          /\ hk[g].pc = "lock" /\ hk[g].c = pctx[1]

\* C37: every queue entry carries the requester metadata stamped by the play
\* call that enqueued it, all entries of one play call carry the same
\* metadata, and every track delivered by a track-start event has the
\* metadata its rendering requires.
C37_EntriesCarryRequester ==
    [][/\ \A p \in Procs, load \in Loads :
             PlayAppend(p, load) /\ ~PlayEnds(load)
             => LET old == Len(ctx[pctx[p]].queue) IN
                \A k \in 1..Len(ctx'[pctx[p]].queue) :
                   k > old => from_str(ctx'[pctx[p]].queue[k].user_data) = TrackUserData(p)
       /\ \A c \in 1..MaxCtx : \A k \in 1..Len(ctx'[c].queue) :
             create_now_playing_embed(ctx'[c].queue[k]) = "embed"
       /\ \A e \in events :
             OnTrackStart(e, TRUE)
             => /\ create_now_playing_embed(e.track) = "embed"
                /\ from_str(e.track.user_data).requester_name \in Procs]_vars

\* a playlist of two tracks was appended by the second author behind nothing,
\* and the track-start event of its first track was delivered
C37_Witness ==
    /\ last = <<"track_start", "posted">>
    /\ cur # 0
    /\ ctx[cur].started.n = 1 /\ from_str(ctx[cur].started.user_data) = TrackUserData(2)
    /\ Len(ctx[cur].queue) = 1 /\ from_str(ctx[cur].queue[1].user_data) = TrackUserData(2)

\* C38: after the ready callback is processed no session exists for any guild.
C38_ReadyLeavesNoSession ==
    [][GuildReady => \A g \in Guilds : ~guilds'[g].context /\ guilds'[g].queue = <<>>]_vars

\* ready ran while both guilds had a session
C38_Witness ==
    /\ last = <<"ready", "none">>
    /\ \A g \in Guilds : ~guilds[g].context /\ guilds[g].call.channel \in VoiceChannels

\* C39: guild isolation: a command, callback or membership event of guild G
\* leaves the session, queue, slot, text channel and voice connection of
\* every other guild H unchanged.
C39_GuildIsolation ==
    [][\A g \in Guilds : GuildStep(g) => \A h \in Guilds \ {g} : guilds'[h] = guilds[h]]_vars

\* guild 1 was torn down by a leave while guild 2 has a session with a
\* playing track, a status message and a queued track
C39_Witness ==
    /\ last = <<"leave", "Disconnected">>
    /\ ~guilds[1].context /\ guilds[1].call.channel = -1
    /\ guilds[2].context /\ guilds[2].track = "A" /\ guilds[2].now_playing_embed = "A"
    /\ guilds[2].queue = <<"B">>

\* the value of the most recent insert for type T among the inserts made,
\* NoState when there was none
MostRecent(inserts, T) ==
    LET at == {k \in 1..Len(inserts) : inserts[k][1] = T} IN
    IF at = {} THEN NoState
    ELSE inserts[CHOOSE k \in at : \A j \in at : j <= k][2]

\* C40: the state store holds at most one value per type: get::<T> returns
\* the value of the most recent insert::<T> and none when T was never
\* inserted (so an insert for one type leaves the others as they were), and
\* get_lavalink_client returns StateNotRegistered exactly when the audio
\* player state was never inserted.
C40_StoreHoldsLatestPerType ==
    /\ \A T \in StateTypes :
          /\ Cardinality({kv \in store.registry : kv[1] = T}) <= 1
          /\ get(store.registry, T) = MostRecent(store.inserts, T)
    /\ (get_lavalink_client(store.registry) = "StateNotRegistered")
          <=> (\A k \in 1..Len(store.inserts) : store.inserts[k][1] # "AudioPlayerState")
    /\ last[1] = "get_lavalink_client"
          => last[2] = get_lavalink_client(store.registry)

\* the audio player state was inserted, then the test state, then the audio
\* player state again with another value, and the client was taken
C40_Witness ==
    /\ store.inserts = <<<<"AudioPlayerState", 1>>, <<"TestState", 1>>, <<"AudioPlayerState", 2>>>>
    /\ last = <<"get_lavalink_client", "Ok">>
    /\ get(store.registry, "AudioPlayerState") = 2
    /\ get(store.registry, "TestState") = 1
====
